---- MODULE Spec2Model ----
(***************************************************************************)
(* Model of src/main.js of the Reddit comments scraper: one run of main(), *)
(* from reading the input to the end of the process.  Every await of the   *)
(* script is a step of the model.  The network, the thread document and    *)
(* the continuation bodies are the environment: each fetch attempt picks   *)
(* its outcome, and each successful fetch picks the body it returns.       *)
(***************************************************************************)
EXTENDS Integers, Sequences, FiniteSets, TLC

VARIABLES
    pc,               \* position of main()
    input,            \* the actor input: startUrl and results_wanted
    RESULTS_WANTED,   \* the effective result cap (line 33)
    jsonUrl,          \* the thread endpoint (line 39)
    attempt,          \* attempt counter of the running retry loop
    response,         \* response of the primary fetch, if any
    lastError,        \* TRUE once a primary attempt threw
    primaryRequests,  \* number of GETs sent to the thread endpoint
    saved,            \* records written to the dataset so far
    totalExtracted,   \* records appended to the batch so far
    batch,            \* records extracted and not yet written
    moreCommentIds,   \* ids collected from "more" placeholders
    stack,            \* call stack of extractComments
    i,                \* index of the continuation loop
    idsToFetch,       \* ids of the continuation request being made
    things,           \* entries of the continuation response being read
    thingIdx,         \* position in things
    fetchedFromMore,  \* records taken from continuation responses
    moreRequests,     \* the id list of every continuation GET sent
    batchWarnings,    \* continuation batches given up with a warning (line 260)
    delays,           \* every delay awaited, in milliseconds
    sink,             \* the dataset: every record written, in order
    error,            \* message of the error thrown inside main(), if any
    exitCode          \* exit code of the process once pc = "exited"

vars == <<pc, input, RESULTS_WANTED, jsonUrl, attempt, response, lastError,
          primaryRequests, saved, totalExtracted, batch, moreCommentIds,
          stack, i, idsToFetch, things, thingIdx, fetchedFromMore,
          moreRequests, batchWarnings, delays, sink, error, exitCode>>

(***************************************************************************)
(* Bounds of the model.                                                    *)
(***************************************************************************)
\* Largest small numeric results_wanted tried (from -1 up).
MaxSmallWanted == 3
\* Trees and caps reach up to this many records beyond one flush batch.
MaxExtra == 2
\* Number of ids carried by the large "more" placeholder.
MaxMoreIds == 101
\* Longest startUrl tried by the endpoint specification.
MaxUrlLen == 4

(***************************************************************************)
(* Values.                                                                 *)
(***************************************************************************)
\* JavaScript's null; no id of the model is this string.
NULL == "<null>"

\* Number.MAX_SAFE_INTEGER (2^53 - 1), held in the widest integer of the
\* checker: all that is used of it is that it exceeds every record count.
MAX_SAFE_INTEGER == 2147483647

\* The batch length at which extractComments and the continuation loop flush.
FLUSH_AT == 20

\* batchSize, the id ceiling of one continuation request.
batchSize == 100

\* A character string, as the sequence of its characters.
DOT_JSON == <<".", "j", "s", "o", "n">>

\* A node of a listing: kind and data payload.  hasData = FALSE is a node
\* whose data payload is missing.  Of the payload the model keeps id,
\* created_utc, parent_id, replies (data.replies.data.children, empty when
\* data.replies is "") and children; author, body, score and permalink are
\* copied by the code exactly as created_utc is.
Node(kind, hasData, id, ts, parent, replies, children) ==
    [kind |-> kind, hasData |-> hasData, id |-> id, created_utc |-> ts,
     parent_id |-> parent, replies |-> replies, children |-> children]

\* Reddit's fullname of a comment id, and the fullname of the post.
FullName(id) == "t1_" \o id
POST_NAME == "t3_p"

T1(id, ts, parent, replies) == Node("t1", TRUE, id, ts, parent, replies, <<>>)
More(children) == Node("more", TRUE, "_", 0, POST_NAME, <<>>, children)
NoData == Node("t1", FALSE, NULL, 0, NULL, <<>>, <<>>)

Cid(k) == "c" \o ToString(k)
Mid(k) == "m" \o ToString(k)

\* The tree of the specification's example: [a, more[x,y], b{c}].
ExampleTree ==
    << T1("a", 30, POST_NAME, <<>>),
       More(<<"x", "y">>),
       T1("b", 10, POST_NAME, << T1("c", 20, FullName("b"), <<>>) >>) >>

ManyIds == [k \in 1..MaxMoreIds |-> Mid(k)]

\* n top-level comments c1..cn.
Flat(n) == [k \in 1..n |-> T1(Cid(k), k, POST_NAME, <<>>)]

\* A comb of n comments: every comment on the spine has the rest of the
\* spine as its first reply and a leaf as its second reply.
RECURSIVE Spine(_, _)
Spine(k, n) ==
    IF k > n THEN <<>>
    ELSE IF k + 1 > n THEN << T1(Cid(k), k, POST_NAME, <<>>) >>
    ELSE << T1(Cid(k), k, POST_NAME,
               Spine(k + 2, n)
               \o << T1(Cid(k + 1), 100 - k, FullName(Cid(k)), <<>>) >>) >>

\* A tree with a node whose data payload is missing, met mid-walk.
BrokenTree ==
    << T1("a", 1, POST_NAME, <<>>),
       T1("b", 2, POST_NAME, << T1("c", 3, FullName("b"), <<>>), NoData >>),
       T1("d", 4, POST_NAME, <<>>) >>

TreeSizes == {0, 2} \cup ((FLUSH_AT - 1)..(FLUSH_AT + MaxExtra))

Trees ==
    {ExampleTree, BrokenTree, << More(ManyIds) >>}
    \cup {Flat(n) : n \in TreeSizes}
    \cup {Flat(n) \o << More(ManyIds) >> : n \in {2, FLUSH_AT}}
    \cup {Spine(1, n) \o << More(<<"x">>), T1("z", 0, POST_NAME, <<>>) >> :
            n \in {3, FLUSH_AT + MaxExtra}}

\* The body of a primary response: text that is not JSON, JSON that is not
\* an array, an array of one listing, or the pair [post, comment listing].
Doc(shape, comments) == [shape |-> shape, comments |-> comments]
Docs ==
    {Doc("garbage", <<>>), Doc("object", <<>>), Doc("short", <<>>)}
    \cup {Doc("pair", t) : t \in Trees}

\* An entry of a continuation response.
Thing(id, ts, parent) == T1(id, ts, parent, <<>>)

\* n entries r1..rn, each the reply of the one before it, parent ids given
\* the way the primary phase writes them.
Replies(n) ==
    [k \in 1..n |-> Thing("r" \o ToString(k), 50 + k,
                          IF k = 1 THEN NULL ELSE "r" \o ToString(k - 1))]

\* The body of a continuation response: text that is not JSON, JSON with no
\* json.data.things, or a list of things.
MoreBody(shape, ts) == [shape |-> shape, things |-> ts]
MoreBodies ==
    { MoreBody("garbage", <<>>),
      MoreBody("nothings", <<>>),
      MoreBody("things", << Thing("x", 40, POST_NAME) >>),
      MoreBody("things", << Thing("y", 41, FullName("a")),
                            More(<<"w">>),
                            Thing("w", 39, "y") >>),
      MoreBody("things", << Thing("x", 40, POST_NAME), NoData,
                            Thing("y", 41, POST_NAME) >>),
      MoreBody("things", Replies(FLUSH_AT + MaxExtra)) }

\* results_wanted of the input: absent, a number, or a value that is no number.
Raw(kind, n) == [kind |-> kind, n |-> n]
WantedNumbers ==
    ((0 - 1)..MaxSmallWanted) \cup {10}
    \cup ((FLUSH_AT - 1)..(FLUSH_AT + MaxExtra))
RawInputs ==
    {Raw("absent", 0), Raw("text", 0)} \cup {Raw("number", n) : n \in WantedNumbers}

Max(a, b) == IF a >= b THEN a ELSE b
Min(a, b) == IF a <= b THEN a ELSE b

\* The coercion without its floor of 1.
EffectiveWanted_NoFloor(raw) ==
    LET RESULTS_WANTED_RAW == IF raw.kind = "absent" THEN Raw("number", 20) ELSE raw
    IN  IF RESULTS_WANTED_RAW.kind = "number"
        THEN RESULTS_WANTED_RAW.n
        ELSE MAX_SAFE_INTEGER

\* Lines 29 and 33: the default of the destructuring, then the coercion.
EffectiveWanted(raw) ==
    LET RESULTS_WANTED_RAW == IF raw.kind = "absent" THEN Raw("number", 20) ELSE raw
    IN  IF RESULTS_WANTED_RAW.kind = "number"
        THEN Max(1, RESULTS_WANTED_RAW.n)
        ELSE MAX_SAFE_INTEGER

\* String.prototype.endsWith('/').
EndsWithSlash(s) == Len(s) > 0 /\ s[Len(s)] = "/"

\* Line 39.
JsonUrl(startUrl) ==
    IF EndsWithSlash(startUrl) THEN startUrl \o DOT_JSON
    ELSE startUrl \o <<"/">> \o DOT_JSON

\* The record given the parent_id of the node's own payload, whatever the
\* caller passed.
CommentData_OwnParent(data, parentId) ==
    [id |-> data.id, created_utc |-> data.created_utc, parent_id |-> data.parent_id]

\* Lines 148-156 and 233-241: the record made of a comment's data.
CommentData(data, parentId) ==
    [id |-> data.id, created_utc |-> data.created_utc, parent_id |-> parentId]


\* pushBatch without line 135: the batch is written and not cleared.
pushBatch_KeepsBatch(st) ==
    IF Len(st.batch) > 0
    THEN [sink |-> st.sink \o st.batch,
          saved |-> st.saved + Len(st.batch),
          batch |-> st.batch]
    ELSE st

\* pushBatch counting one record for the batch it wrote.
pushBatch_CountsOne(st) ==
    IF Len(st.batch) > 0
    THEN [sink |-> st.sink \o st.batch,
          saved |-> st.saved + 1,
          batch |-> <<>>]
    ELSE st

\* Lines 130-137: pushBatch, on the dataset, the counter and the batch.
pushBatch(st) ==
    IF Len(st.batch) > 0
    THEN [sink |-> st.sink \o st.batch,
          saved |-> st.saved + Len(st.batch),
          batch |-> <<>>]
    ELSE st

\* A flush that waits for one record more than the batch size.
AddRecord_FlushLate(st, rec) ==
    LET st1 == [st EXCEPT !.batch = Append(st.batch, rec)]
    IN  IF Len(st1.batch) > FLUSH_AT THEN pushBatch(st1) ELSE st1

\* Lines 158-164 and 243-250: append a record, flush a full batch.
AddRecord(st, rec) ==
    LET st1 == [st EXCEPT !.batch = Append(st.batch, rec)]
    IN  IF Len(st1.batch) >= FLUSH_AT THEN pushBatch(st1) ELSE st1

\* Lines 142 and 229: the stop check of the two extraction loops.
LimitReached(savedNow, wanted) == savedNow >= wanted

\* A retry loop that runs one attempt too many.
HasNextAttempt_OneMore(a) == a < 4

\* Lines 74 and 93: an attempt that failed is followed by another one.
HasNextAttempt(a) == a < 3

\* Line 94: the delay before the next primary attempt.
PrimaryBackoff(a) == a * 2000

\* Line 167: the comment carries nested replies.
HasReplies(data) == Len(data.replies) > 0

\* The nested call given the parent id of the enclosing call.
RepliesParentId_Inherited(data, parentId) == parentId

\* Line 168: the parent id handed to the walk of a comment's replies.
RepliesParentId(data, parentId) == data.id

\* Line 239: the parent id of a continuation record.
ThingParentId(data) == data.parent_id

\* Array.prototype.slice(from, to) for from >= 0: a negative end counts from
\* the end of the array.
Slice(s, from, to) ==
    LET end == IF to < 0 THEN Max(Len(s) + to, 0) ELSE Min(to, Len(s))
    IN  SubSeq(s, from + 1, end)

\* A request that takes every id from the loop index on.
IdsToFetch_WholeRest(ids, idx, savedNow, wanted) == Slice(ids, idx, Len(ids))

\* Lines 195-196: the ids of the request made at loop index idx.
IdsToFetch(ids, idx, savedNow, wanted) ==
    LET idBatch == Slice(ids, idx, idx + batchSize)
    IN  Slice(idBatch, 0, Min(batchSize, wanted - savedNow))

\* A continuation guard that never closes.
StillWanted_Always(savedNow, wanted) == TRUE

\* Lines 187 and 194: records are still wanted.
StillWanted(savedNow, wanted) == savedNow < wanted

\* A loop index that stays where it is.
NextIndex_Stuck(idx) == idx

\* Line 194: the step of the continuation loop, i += batchSize.
NextIndex(idx) == idx + batchSize

\* A continuation loop without its catch: the failure leaves the try block
\* of main().
AfterBatchFailure_Rethrown == "catch"

\* Lines 259-261: where a failed continuation batch leaves main().
AfterBatchFailure == "moreLoop"

\* Actor.exit() with its default options calls process.exit(0).
ActorExitCode == 0

Store == [sink |-> sink, saved |-> saved, batch |-> batch]

SetStore(st) ==
    /\ sink' = st.sink
    /\ saved' = st.saved
    /\ batch' = st.batch

Throw(msg) ==
    /\ pc' = "catch"
    /\ error' = msg

(***************************************************************************)
(* The run.                                                                *)
(***************************************************************************)
StartUrls == {<<>>, <<"r", "/", "a">>}

InitWith(urls, raws) ==
    /\ input \in [startUrl : urls, results_wanted : raws]
    /\ RESULTS_WANTED = EffectiveWanted(input.results_wanted)
    /\ pc = "input"
    /\ jsonUrl = <<>>
    /\ attempt = 0
    /\ response = [received |-> FALSE, statusCode |-> 0, body |-> Doc("garbage", <<>>)]
    /\ lastError = FALSE
    /\ primaryRequests = 0
    /\ saved = 0
    /\ totalExtracted = 0
    /\ batch = <<>>
    /\ moreCommentIds = <<>>
    /\ stack = <<>>
    /\ i = 0
    /\ idsToFetch = <<>>
    /\ things = <<>>
    /\ thingIdx = 0
    /\ fetchedFromMore = 0
    /\ moreRequests = <<>>
    /\ batchWarnings = 0
    /\ delays = <<>>
    /\ sink = <<>>
    /\ error = NULL
    /\ exitCode = 0

Init == InitWith(StartUrls, RawInputs)

\* Lines 12-72: the input is read, the URL is required, the endpoint built.
ReadInput ==
    /\ pc = "input"
    /\ IF Len(input.startUrl) = 0
       THEN /\ Throw("startUrl is required")
            /\ UNCHANGED <<jsonUrl, attempt>>
       ELSE /\ jsonUrl' = JsonUrl(input.startUrl)
            /\ attempt' = 1
            /\ pc' = "fetch"
            /\ UNCHANGED error
    /\ UNCHANGED <<input, RESULTS_WANTED, response, lastError, primaryRequests,
                   saved, totalExtracted, batch, moreCommentIds, stack, i,
                   idsToFetch, things, thingIdx, fetchedFromMore, moreRequests, batchWarnings,
                   delays, sink, exitCode>>

\* Lines 74-99, one attempt: the request returns a response of any status,
\* which ends the loop, or throws, which is followed by the backoff and the
\* next attempt while there is one.
PrimaryAttempt ==
    /\ pc = "fetch"
    /\ primaryRequests' = primaryRequests + 1
    /\ \/ \E status \in {200, 429}, body \in Docs :
            /\ status = 200 \/ body.shape = "garbage"
            /\ response' = [received |-> TRUE, statusCode |-> status, body |-> body]
            /\ pc' = "fetched"
            /\ UNCHANGED <<lastError, attempt, delays>>
       \/ /\ lastError' = TRUE
          /\ IF HasNextAttempt(attempt)
             THEN /\ delays' = Append(delays, PrimaryBackoff(attempt))
                  /\ attempt' = attempt + 1
                  /\ pc' = "fetch"
             ELSE /\ pc' = "fetched"
                  /\ UNCHANGED <<attempt, delays>>
          /\ UNCHANGED response
    /\ UNCHANGED <<input, RESULTS_WANTED, jsonUrl, saved, totalExtracted, batch,
                   moreCommentIds, stack, i, idsToFetch, things, thingIdx,
                   fetchedFromMore, moreRequests, batchWarnings, sink, error, exitCode>>

\* Lines 101-127: the checks of the response, and the comment listing.
ParseResponse ==
    /\ pc = "fetched"
    /\ IF ~response.received
         THEN Throw("Failed to fetch after 3 attempts") /\ UNCHANGED stack
       ELSE IF response.statusCode # 200
         THEN Throw("Failed to fetch Reddit data") /\ UNCHANGED stack
       ELSE IF response.body.shape = "garbage"
         THEN Throw("Unexpected token") /\ UNCHANGED stack
       ELSE IF response.body.shape \in {"object", "short"}
         THEN Throw("Invalid Reddit JSON response") /\ UNCHANGED stack
       ELSE /\ stack' = << [arr |-> response.body.comments, idx |-> 1, parentId |-> NULL] >>
            /\ pc' = "extract"
            /\ UNCHANGED error
    /\ UNCHANGED <<input, RESULTS_WANTED, jsonUrl, attempt, response, lastError,
                   primaryRequests, saved, totalExtracted, batch, moreCommentIds,
                   i, idsToFetch, things, thingIdx, fetchedFromMore,
                   moreRequests, batchWarnings, delays, sink, exitCode>>


\* The frame of the running call of extractComments, and the stack with that
\* call at its next loop iteration, or returned.
Top == stack[Len(stack)]
Advanced == [stack EXCEPT ![Len(stack)].idx = @ + 1]
Returned == SubSeq(stack, 1, Len(stack) - 1)

\* Lines 140-176, one iteration of the for loop of the running call of
\* extractComments: the call returns when its array is exhausted or the
\* limit is reached; a comment is recorded, a full batch is flushed, and its
\* replies are walked by a nested call; the ids of a placeholder are kept.
\* Reading the id of a node with no data payload throws.
ExtractStep ==
    /\ pc = "extract"
    /\ Len(stack) > 0
    /\ IF Top.idx > Len(Top.arr) \/ LimitReached(saved, RESULTS_WANTED)
       THEN /\ stack' = Returned
            /\ UNCHANGED <<pc, error, sink, saved, batch, totalExtracted, moreCommentIds>>
       ELSE LET comment == Top.arr[Top.idx] IN
            IF comment.kind = "t1" /\ ~comment.hasData
            THEN /\ Throw("Cannot read properties of undefined")
                 /\ UNCHANGED <<stack, sink, saved, batch, totalExtracted, moreCommentIds>>
            ELSE IF comment.kind = "t1"
            THEN /\ SetStore(AddRecord(Store, CommentData(comment, Top.parentId)))
                 /\ totalExtracted' = totalExtracted + 1
                 /\ stack' = IF HasReplies(comment)
                             THEN Append(Advanced,
                                         [arr |-> comment.replies, idx |-> 1,
                                          parentId |-> RepliesParentId(comment, Top.parentId)])
                             ELSE Advanced
                 /\ UNCHANGED <<pc, error, moreCommentIds>>
            ELSE IF comment.kind = "more" /\ saved < RESULTS_WANTED
            THEN /\ moreCommentIds' = moreCommentIds \o comment.children
                 /\ stack' = Advanced
                 /\ UNCHANGED <<pc, error, sink, saved, batch, totalExtracted>>
            ELSE /\ stack' = Advanced
                 /\ UNCHANGED <<pc, error, sink, saved, batch, totalExtracted, moreCommentIds>>
    /\ UNCHANGED <<input, RESULTS_WANTED, jsonUrl, attempt, response, lastError,
                   primaryRequests, i, idsToFetch, things, thingIdx,
                   fetchedFromMore, moreRequests, batchWarnings, delays, exitCode>>

\* Lines 179-192: the outermost call has returned; the rest of the batch is
\* written, and the continuation phase is entered if ids were collected and
\* records are still wanted.
PrimaryFlush ==
    /\ pc = "extract"
    /\ Len(stack) = 0
    /\ SetStore(pushBatch(Store))
    /\ IF Len(moreCommentIds) > 0 /\ StillWanted(saved', RESULTS_WANTED)
       THEN pc' = "moreLoop"
       ELSE pc' = "done"
    /\ i' = 0
    /\ fetchedFromMore' = 0
    /\ UNCHANGED <<input, RESULTS_WANTED, jsonUrl, attempt, response, lastError,
                   primaryRequests, totalExtracted, moreCommentIds, stack,
                   idsToFetch, things, thingIdx, moreRequests, batchWarnings, delays, error,
                   exitCode>>

\* Lines 194-206: the head of the continuation loop, and the ids of the next
\* request; lines 264-265 when the loop ends.
MoreLoop ==
    /\ pc = "moreLoop"
    /\ LET ids == IdsToFetch(moreCommentIds, i, saved, RESULTS_WANTED) IN
       IF i < Len(moreCommentIds) /\ StillWanted(saved, RESULTS_WANTED) /\ Len(ids) # 0
       THEN /\ idsToFetch' = ids
            /\ attempt' = 1
            /\ pc' = "moreFetch"
            /\ UNCHANGED <<sink, saved, batch>>
       ELSE /\ SetStore(pushBatch(Store))
            /\ pc' = "done"
            /\ UNCHANGED <<idsToFetch, attempt>>
    /\ UNCHANGED <<input, RESULTS_WANTED, jsonUrl, response, lastError,
                   primaryRequests, totalExtracted, moreCommentIds, stack, i,
                   things, thingIdx, fetchedFromMore, moreRequests, batchWarnings, delays,
                   error, exitCode>>

\* Line 256-258: the delay between two batches, when another batch follows.
RateLimit(savedNow) ==
    IF i + batchSize < Len(moreCommentIds) /\ savedNow < RESULTS_WANTED
    THEN Append(delays, 1000)
    ELSE delays

\* Lines 207-226 and 259-262, one attempt of a continuation request.  A
\* response of any status ends the retry loop and its body is parsed: a body
\* that is not JSON throws into the catch of the batch, a body without
\* things goes to the rate limit, a list of things is read next.  An attempt
\* that throws is followed by a fixed delay and the next attempt, and the
\* third one throws into the catch of the batch, which goes on with the loop.
MoreAttempt ==
    /\ pc = "moreFetch"
    /\ moreRequests' = Append(moreRequests, idsToFetch)
    /\ \/ \E body \in MoreBodies :
            CASE body.shape = "garbage" ->
                    /\ pc' = AfterBatchFailure
                    /\ batchWarnings' = batchWarnings + 1
                    /\ i' = NextIndex(i)
                    /\ UNCHANGED <<things, thingIdx, delays, attempt>>
              [] body.shape = "nothings" ->
                    /\ delays' = RateLimit(saved)
                    /\ i' = NextIndex(i)
                    /\ pc' = "moreLoop"
                    /\ UNCHANGED <<things, thingIdx, attempt, batchWarnings>>
              [] OTHER ->
                    /\ things' = body.things
                    /\ thingIdx' = 1
                    /\ pc' = "things"
                    /\ UNCHANGED <<i, delays, attempt, batchWarnings>>
       \/ IF attempt = 3
          THEN /\ pc' = AfterBatchFailure
               /\ batchWarnings' = batchWarnings + 1
               /\ i' = NextIndex(i)
               /\ UNCHANGED <<things, thingIdx, delays, attempt>>
          ELSE /\ delays' = Append(delays, 2000)
               /\ attempt' = attempt + 1
               /\ UNCHANGED <<pc, i, things, thingIdx, batchWarnings>>
    /\ UNCHANGED <<input, RESULTS_WANTED, jsonUrl, response, lastError,
                   primaryRequests, saved, totalExtracted, batch, moreCommentIds,
                   stack, idsToFetch, fetchedFromMore, sink, error, exitCode>>

\* Lines 228-262, one iteration of the loop over the things of a response:
\* the loop ends at the end of the list or at the limit, and is followed by
\* the rate limit; a comment is recorded and a full batch flushed; reading
\* the id of an entry with no data payload throws into the catch of the batch.
ThingStep ==
    /\ pc = "things"
    /\ IF thingIdx > Len(things) \/ LimitReached(saved, RESULTS_WANTED)
       THEN /\ delays' = RateLimit(saved)
            /\ i' = NextIndex(i)
            /\ pc' = "moreLoop"
            /\ UNCHANGED <<thingIdx, sink, saved, batch, totalExtracted, fetchedFromMore,
                           batchWarnings>>
       ELSE LET thing == things[thingIdx] IN
            IF thing.kind = "t1" /\ ~thing.hasData
            THEN /\ pc' = AfterBatchFailure
                 /\ batchWarnings' = batchWarnings + 1
                 /\ i' = NextIndex(i)
                 /\ UNCHANGED <<thingIdx, delays, sink, saved, batch, totalExtracted,
                                fetchedFromMore>>
            ELSE IF thing.kind = "t1"
            THEN /\ SetStore(AddRecord(Store, CommentData(thing, ThingParentId(thing))))
                 /\ totalExtracted' = totalExtracted + 1
                 /\ fetchedFromMore' = fetchedFromMore + 1
                 /\ thingIdx' = thingIdx + 1
                 /\ UNCHANGED <<pc, i, delays, batchWarnings>>
            ELSE /\ thingIdx' = thingIdx + 1
                 /\ UNCHANGED <<pc, i, delays, sink, saved, batch, totalExtracted,
                                fetchedFromMore, batchWarnings>>
    /\ UNCHANGED <<input, RESULTS_WANTED, jsonUrl, attempt, response, lastError,
                   primaryRequests, moreCommentIds, stack, idsToFetch, things,
                   moreRequests, error, exitCode>>

\* Line 270, then the finally clause on the way out of the try block.
Done ==
    /\ pc = "done"
    /\ pc' = "finally"
    /\ UNCHANGED <<input, RESULTS_WANTED, jsonUrl, attempt, response, lastError,
                   primaryRequests, saved, totalExtracted, batch, moreCommentIds,
                   stack, i, idsToFetch, things, thingIdx, fetchedFromMore,
                   moreRequests, batchWarnings, delays, sink, error, exitCode>>

\* Lines 271-274: the error is logged and thrown again; the finally clause
\* runs before it leaves main().
Catch ==
    /\ pc = "catch"
    /\ pc' = "finally"
    /\ UNCHANGED <<input, RESULTS_WANTED, jsonUrl, attempt, response, lastError,
                   primaryRequests, saved, totalExtracted, batch, moreCommentIds,
                   stack, i, idsToFetch, things, thingIdx, fetchedFromMore,
                   moreRequests, batchWarnings, delays, sink, error, exitCode>>

\* Lines 275-277: await Actor.exit().  With no options it ends the process
\* with the success code, whether or not an error is on its way out of
\* main(); if its own teardown rejects, that rejection leaves main().
ActorExit ==
    /\ pc = "finally"
    /\ \/ /\ exitCode' = ActorExitCode
          /\ pc' = "exited"
          /\ UNCHANGED error
       \/ /\ error' = "Actor.exit failed"
          /\ pc' = "rejected"
          /\ UNCHANGED exitCode
    /\ UNCHANGED <<input, RESULTS_WANTED, jsonUrl, attempt, response, lastError,
                   primaryRequests, saved, totalExtracted, batch, moreCommentIds,
                   stack, i, idsToFetch, things, thingIdx, fetchedFromMore,
                   moreRequests, batchWarnings, delays, sink>>

\* Lines 280-284: the rejection of main() is logged and the process exits 1.
MainCatch ==
    /\ pc = "rejected"
    /\ exitCode' = 1
    /\ pc' = "exited"
    /\ UNCHANGED <<input, RESULTS_WANTED, jsonUrl, attempt, response, lastError,
                   primaryRequests, saved, totalExtracted, batch, moreCommentIds,
                   stack, i, idsToFetch, things, thingIdx, fetchedFromMore,
                   moreRequests, batchWarnings, delays, sink, error>>

Next ==
    \/ ReadInput
    \/ PrimaryAttempt
    \/ ParseResponse
    \/ ExtractStep
    \/ PrimaryFlush
    \/ MoreLoop
    \/ MoreAttempt
    \/ ThingStep
    \/ Done
    \/ Catch
    \/ ActorExit
    \/ MainCatch

Spec == Init /\ [][Next]_vars

\* The run with its scheduling: the script is the only thread of control,
\* every request ends within its timeout and every delay elapses, so a step
\* that can be taken is taken.
FairSpec == Spec /\ WF_vars(Next)

\* The endpoint alone: every startUrl of up to MaxUrlLen characters.
UrlChars == {"r", "/", "."}
Urls == UNION {[1..n -> UrlChars] : n \in 0..MaxUrlLen}
UrlInit == InitWith(Urls, {Raw("absent", 0)})
UrlSpec == UrlInit /\ [][ReadInput]_vars



(***************************************************************************)
(* What the claims are stated with.                                        *)
(***************************************************************************)
IsPrefix(s, t) == Len(s) <= Len(t) /\ SubSeq(t, 1, Len(s)) = s

\* The comment listing of the thread document, once a response carries one.
Tree == IF response.received /\ response.statusCode = 200 /\ response.body.shape = "pair"
        THEN response.body.comments
        ELSE <<>>

\* The comments of a listing in depth-first pre-order, each with the id of
\* the comment that encloses it.
RECURSIVE Preorder(_, _)
Preorder(nodes, parentId) ==
    IF nodes = <<>> THEN <<>>
    ELSE LET n == Head(nodes) IN
         (IF n.kind = "t1" /\ n.hasData
          THEN << [id |-> n.id, created_utc |-> n.created_utc, parent_id |-> parentId] >>
               \o Preorder(n.replies, n.id)
          ELSE <<>>)
         \o Preorder(Tail(nodes), parentId)

\* The ids carried by the placeholders of a listing, in the same order.
RECURSIVE PlaceholderIds(_)
PlaceholderIds(nodes) ==
    IF nodes = <<>> THEN <<>>
    ELSE LET n == Head(nodes) IN
         (IF n.kind = "more" THEN n.children
          ELSE IF n.hasData THEN PlaceholderIds(n.replies) ELSE <<>>)
         \o PlaceholderIds(Tail(nodes))

\* Every comment of the listing carries its data payload.
RECURSIVE WellFormed(_)
WellFormed(nodes) ==
    \A k \in DOMAIN nodes : nodes[k].hasData /\ WellFormed(nodes[k].replies)

CommentCount(nodes) == Len(Preorder(nodes, NULL))
TopLevelComments(nodes) == Cardinality({k \in DOMAIN nodes : nodes[k].kind = "t1"})
NullParents(recs) == Cardinality({k \in DOMAIN recs : recs[k].parent_id = NULL})

\* The primary phase has ended normally and main() is still in its try block.
AfterPrimary == pc \in {"moreLoop", "moreFetch", "things", "done"}

\* The records of the primary phase that have been written.
PrimaryWritten == SubSeq(sink, 1, Min(Len(sink), totalExtracted - fetchedFromMore))

\* C1: the number of records written never exceeds the effective cap.
C1_WrittenWithinCap == Len(sink) <= RESULTS_WANTED

\* C2: a run that threw a fatal error inside main() ends with a non-zero
\* exit code.
C2_FatalErrorExitsNonZero ==
    (pc = "exited" /\ error # NULL) => exitCode # 0

\* C3: when the process has ended, every extracted record has been written.
C3_ExtractedAllWritten ==
    pc = "exited" => (batch = <<>> /\ Len(sink) = totalExtracted)

\* C4: every written record with a non-null parent_id follows a record whose
\* id is that parent_id.
C4_ParentWrittenEarlier ==
    \A k \in DOMAIN sink :
        sink[k].parent_id # NULL =>
            \E j \in 1..(k - 1) : sink[j].id = sink[k].parent_id

\* C5: once a continuation batch has been given up, the run is not failed by
\* it, the primary records are still in the dataset, and the loop ends only
\* when the id batches are exhausted or the cap is reached.
C5_BatchFailureSwallowed ==
    batchWarnings > 0 =>
        /\ pc # "catch"
        /\ error \in {NULL, "Actor.exit failed"}
        /\ Len(sink) >= totalExtracted - fetchedFromMore
        /\ IsPrefix(PrimaryWritten, Preorder(Tree, NULL))
        /\ pc = "moreLoop" => i >= batchSize
        /\ pc \in {"done", "finally", "rejected", "exited"} =>
              (i >= Len(moreCommentIds) \/ saved >= RESULTS_WANTED)

\* C5 witness: the first batch failed on all its attempts and the request of
\* the second batch has been sent, with the primary records in the dataset.
C5_Witness ==
    /\ batchWarnings = 1
    /\ Len(moreRequests) = 4
    /\ moreRequests[4] # moreRequests[3]
    /\ Len(sink) >= 2

\* C6: when all three attempts of the primary fetch failed, exactly three
\* requests were sent to the thread endpoint, no continuation request was
\* sent and nothing was written.
C6_PrimaryFetchGivenUp ==
    /\ primaryRequests <= 3
    /\ (pc \notin {"input", "fetch"} /\ primaryRequests > 0 /\ ~response.received) =>
          /\ primaryRequests = 3
          /\ moreRequests = <<>>
          /\ sink = <<>>
          /\ totalExtracted = 0

C6_Witness ==
    pc = "exited" /\ ~response.received /\ primaryRequests = 3 /\ lastError

\* C7 as claimed: for every well-formed tree and every cap, the written
\* records with a null parent_id are as many as the top-level comments.
C7_NullParentsEveryCap ==
    (pc = "done" /\ Tree # <<>> /\ WellFormed(Tree)) =>
        NullParents(sink) = TopLevelComments(Tree)

\* C7 amended: for a well-formed tree of at most cap comments, the records
\* of the primary phase with a null parent_id are as many as the top-level
\* comments.
C7_NullParentsWithinCap ==
    (AfterPrimary /\ WellFormed(Tree) /\ CommentCount(Tree) <= RESULTS_WANTED) =>
        NullParents(PrimaryWritten) = TopLevelComments(Tree)

C7_Witness ==
    /\ pc = "done"
    /\ WellFormed(Tree)
    /\ CommentCount(Tree) = RESULTS_WANTED
    /\ CommentCount(Tree) > TopLevelComments(Tree)
    /\ TopLevelComments(Tree) >= 2
    /\ NullParents(PrimaryWritten) = TopLevelComments(Tree)

\* C8: for a well-formed tree of fewer comments than the cap, the primary
\* phase writes exactly the comments in depth-first pre-order, top-level
\* ones with a null parent_id and replies with the enclosing comment's id,
\* and collects the ids of every placeholder in order; the example tree
\* with cap 10 gives a(null), b(null), c(b) and the ids [x, y].
C8_PreorderBelowCap ==
    /\ (AfterPrimary /\ WellFormed(Tree) /\ CommentCount(Tree) < RESULTS_WANTED) =>
          /\ PrimaryWritten = Preorder(Tree, NULL)
          /\ moreCommentIds = PlaceholderIds(Tree)
    /\ (AfterPrimary /\ Tree = ExampleTree /\ RESULTS_WANTED = 10) =>
          /\ [k \in 1..3 |-> <<PrimaryWritten[k].id, PrimaryWritten[k].parent_id>>]
                = << <<"a", NULL>>, <<"b", NULL>>, <<"c", "b">> >>
          /\ Len(PrimaryWritten) = 3
          /\ moreCommentIds = <<"x", "y">>

C8_Witness ==
    /\ pc = "done"
    /\ Tree = ExampleTree
    /\ RESULTS_WANTED = 10
    /\ Len(sink) >= 3

\* C9: the records of the primary phase that have been written are always a
\* prefix of the depth-first pre-order of the tree's comments.
C9_PrimaryIsPreorderPrefix ==
    IsPrefix(PrimaryWritten, Preorder(Tree, NULL))

\* C9 witness: the cap stopped the walk inside nested calls, after a flush.
C9_Witness ==
    /\ pc = "done"
    /\ Len(PrimaryWritten) = FLUSH_AT
    /\ CommentCount(Tree) > FLUSH_AT
    /\ CommentCount(Tree) > TopLevelComments(Tree) + 2
    /\ RESULTS_WANTED < FLUSH_AT

\* C10: the endpoint is the input URL, one '/' and '.json', with never more
\* than one slash right before '.json'.
C10_OneSlashBeforeJson ==
    pc = "fetch" =>
        LET n == Len(jsonUrl) IN
        /\ n >= Len(DOT_JSON) + 1
        /\ SubSeq(jsonUrl, n - Len(DOT_JSON) + 1, n) = DOT_JSON
        /\ jsonUrl[n - Len(DOT_JSON)] = "/"
        /\ n - Len(DOT_JSON) - 1 >= 1 => jsonUrl[n - Len(DOT_JSON) - 1] # "/"
        /\ IsPrefix(input.startUrl, jsonUrl)


C12_Chronological ==
    \A k \in 1..(Len(sink) - 1) : sink[k].created_utc <= sink[k + 1].created_utc

\* C13: a primary response with a status other than 200 is retried like a
\* thrown attempt, so the run fails on it only after three requests.
C13_Non200Retried ==
    (pc \notin {"input", "fetch"} /\ response.received /\ response.statusCode # 200) =>
        primaryRequests = 3

\* The last n delays awaited, or all of them when there are fewer.
LastDelays(n) == SubSeq(delays, Max(Len(delays) - n, 0) + 1, Len(delays))

\* C14: the primary fetch and every continuation fetch make at most three
\* attempts, wait 2000 ms before the second attempt and 4000 ms before the
\* third, and do not wait after the third.
C14_SameRetryDiscipline ==
    /\ attempt <= 3
    /\ (pc \in {"fetch", "moreFetch"} /\ attempt = 2) => LastDelays(1) = <<2000>>
    /\ (pc \in {"fetch", "moreFetch"} /\ attempt = 3) => LastDelays(2) = <<2000, 4000>>
    /\ (pc = "fetched" /\ ~response.received) => delays = <<2000, 4000>>

\* C15: the first request of every continuation batch but the first comes
\* right after the 1000 ms delay, however the batch before it ended.
C15_DelayBetweenBatches ==
    (pc = "moreFetch" /\ attempt = 1 /\ i > 0) => LastDelays(1) = <<1000>>


Range(f) == {f[x] : x \in DOMAIN f}

\* Every id that some continuation request carried.
RequestedIds == UNION {Range(moreRequests[r]) : r \in DOMAIN moreRequests}

\* C16 as claimed: when the continuation loop has ended, every collected id
\* was carried by some request or the cap is reached; no request carries
\* more than 100 ids.
C16_EveryIdRequested ==
    /\ pc = "done" =>
          \/ Range(moreCommentIds) \subseteq RequestedIds
          \/ saved >= RESULTS_WANTED
    /\ \A r \in DOMAIN moreRequests : Len(moreRequests[r]) <= batchSize

\* C16 amended: when the continuation loop has ended, its index is past the
\* last collected id or the cap is reached; every request carries the first
\* min(100, cap - saved) ids of the batch at the loop index, so between 1
\* and 100 ids.
C16_EveryBatchVisited ==
    /\ pc = "done" =>
          \/ i >= Len(moreCommentIds)
          \/ saved >= RESULTS_WANTED
    /\ \A r \in DOMAIN moreRequests :
          /\ Len(moreRequests[r]) \in 1..batchSize
          /\ \E b \in 0..(Len(moreCommentIds) \div batchSize) :
                IsPrefix(moreRequests[r],
                         SubSeq(moreCommentIds, b * batchSize + 1, Len(moreCommentIds)))
    /\ pc = "moreFetch" =>
          /\ IsPrefix(idsToFetch, SubSeq(moreCommentIds, i + 1, Len(moreCommentIds)))
          /\ Len(idsToFetch) =
                Min(Min(batchSize, Len(moreCommentIds) - i), RESULTS_WANTED - saved)

\* C16 witness: the loop has ended below the cap with every batch visited
\* and ids of the first batch never requested.
C16_Witness ==
    /\ pc = "done"
    /\ Len(moreRequests) >= 2
    /\ saved < RESULTS_WANTED
    /\ i >= Len(moreCommentIds)
    /\ ~(Range(moreCommentIds) \subseteq RequestedIds)

\* C17: a continuation request is made only with ids collected, with fewer
\* records saved by the primary phase than the cap, and in a state where
\* saved is below the cap.
C17_NoRequestAtCap ==
    /\ pc = "moreFetch" =>
          /\ saved < RESULTS_WANTED
          /\ Len(moreCommentIds) > 0
    /\ moreRequests # <<>> =>
          /\ Len(moreCommentIds) > 0
          /\ totalExtracted - fetchedFromMore < RESULTS_WANTED

\* C17 witness: a request was made, a flush then took saved to the cap, and
\* the loop ended with ids of a later batch left.
C17_Witness ==
    /\ pc = "done"
    /\ Len(moreRequests) = 1
    /\ i < Len(moreCommentIds)
    /\ saved >= RESULTS_WANTED

\* C19: saved + batch.length = totalExtracted with a batch of at most 20,
\* saved is the number of records written, a run that completes has an
\* empty batch, and every step keeps the extracted records (written ones,
\* then the batch) in order, adding at most one at the end.
C19_Accounting ==
    /\ saved + Len(batch) = totalExtracted
    /\ Len(batch) <= FLUSH_AT
    /\ Len(sink) = saved
    /\ pc = "done" => (batch = <<>> /\ saved = totalExtracted)

C19_BatchAccounting ==
    /\ []C19_Accounting
    /\ [][/\ IsPrefix(sink \o batch, sink' \o batch')
          /\ Len(sink' \o batch') <= Len(sink \o batch) + 1
          /\ IsPrefix(sink, sink')
          /\ saved' - saved = Len(sink') - Len(sink)]_vars

\* C19 witness: a run completed with records of both phases, after flushes
\* of full batches.
C19_Witness ==
    /\ pc = "done"
    /\ fetchedFromMore > 0
    /\ totalExtracted - fetchedFromMore > 0
    /\ saved > FLUSH_AT
    /\ saved = totalExtracted

\* C20: the number of records written is at most cap + 19.
C20_WithinCapPlusNineteen ==
    Len(sink) - (FLUSH_AT - 1) <= RESULTS_WANTED

\* C20 witness: a run that wrote cap + 19 records.
C20_Witness ==
    /\ pc = "done"
    /\ Len(sink) - (FLUSH_AT - 1) = RESULTS_WANTED


\* C18: every run ends: the primary fetch and every continuation batch make
\* at most three attempts, every iteration of the continuation loop, failed
\* ones included, moves its index on by 100, and the process exits.
C18_Terminates ==
    /\ [](primaryRequests <= 3 /\ attempt <= 3)
    /\ [][(pc \in {"moreFetch", "things"} /\ pc' \notin {"moreFetch", "things"}) =>
              i' = i + batchSize]_vars
    /\ [][Len(moreRequests') > Len(moreRequests) => attempt' <= 3]_vars
    /\ <>(pc = "exited")

\* C18 witness: the process has ended after a primary fetch that needed all
\* three attempts and continuation batches that failed.
C18_Witness ==
    /\ pc = "exited"
    /\ primaryRequests = 3
    /\ batchWarnings >= 2
    /\ Len(moreRequests) >= 6

====
